---- MODULE Spec2Model ----
(***************************************************************************)
(* Model of app.py, the GADM city name matcher: load_all_data,             *)
(* find_matches and main.                                                  *)
(*                                                                         *)
(* Text is a sequence of one-character strings, so that strip, splitlines  *)
(* and split are computed character by character.  A cell of a DataFrame   *)
(* is a text or NaN (pandas' value of an empty CSV cell).                  *)
(***************************************************************************)
EXTENDS Integers, Sequences, FiniteSets, TLC

VARIABLES
    scorer,     \* fuzz.token_set_ratio as a table: <<query, db_name>> -> score
    threshold,  \* value of the sidebar slider
    raw_input,  \* content of the text area
    cache,      \* st.cache_data entry of load_all_data: NoCache or the dict
    failed,     \* filepaths whose read_csv raised when the cache was filled
    shown,      \* what the last script run rendered
    entries,    \* main's entries list of the last run
    calls,      \* the find_matches invocations of the last run, in order
    results,    \* main's results list before sorting
    df_res,     \* main's df_res: rows <<index, match>> in displayed order
    call        \* a direct call of a module function: arguments and result

vars == <<scorer, threshold, raw_input, cache, failed, shown, entries,
          calls, results, df_res, call>>

-----------------------------------------------------------------------------
(* Bounds of the model *)

MaxLines == 2
MaxRows == 2

-----------------------------------------------------------------------------
(* Python values *)

None == <<"None">>
NaN == <<"NaN">>
KeyError == <<[raised |-> "KeyError"]>>
NoCache == [loaded |-> FALSE]
Cached(data) == [loaded |-> TRUE, data |-> data]
EmptyText == <<>>

tA == <<"A">>
tB == <<"B">>
tX == <<"X">>
tY == <<"Y">>
tNan == <<"n", "a", "n">>

\* str(v) for a cell value
Str(v) == IF v = NaN THEN tNan ELSE v

\* ord(c) of the characters the model uses
CodePoint(c) ==
    CASE c = "\n" -> 10
      [] c = " " -> 32
      [] c = "A" -> 65
      [] c = "B" -> 66
      [] c = "X" -> 88
      [] c = "Y" -> 89
      [] c = "a" -> 97
      [] c = "n" -> 110
      [] c = "|" -> 124

\* s < t for two Python strings
RECURSIVE StrLess(_, _)
StrLess(s, t) ==
    IF t = <<>> THEN FALSE
    ELSE IF s = <<>> THEN TRUE
    ELSE IF Head(s) = Head(t) THEN StrLess(Tail(s), Tail(t))
    ELSE CodePoint(Head(s)) < CodePoint(Head(t))

IsSpace(c) == c \in {" ", "\n"}

RECURSIVE lstrip(_)
lstrip(s) ==
    IF s = <<>> THEN <<>>
    ELSE IF IsSpace(Head(s)) THEN lstrip(Tail(s)) ELSE s

RECURSIVE rstrip(_)
rstrip(s) ==
    IF s = <<>> THEN <<>>
    ELSE IF IsSpace(s[Len(s)]) THEN rstrip(SubSeq(s, 1, Len(s) - 1)) ELSE s

\* str.strip()
strip(s) == rstrip(lstrip(s))

RECURSIVE SplitLinesFrom(_, _)
SplitLinesFrom(s, cur) ==
    IF s = <<>> THEN (IF cur = <<>> THEN <<>> ELSE <<cur>>)
    ELSE IF Head(s) = "\n" THEN <<cur>> \o SplitLinesFrom(Tail(s), <<>>)
    ELSE SplitLinesFrom(Tail(s), Append(cur, Head(s)))

\* str.splitlines()
splitlines(s) == SplitLinesFrom(s, <<>>)

\* '|' in line
HasBar(line) == \E i \in 1..Len(line) : line[i] = "|"

FirstBar(line) == CHOOSE i \in 1..Len(line) :
    line[i] = "|" /\ \A j \in 1..(i - 1) : line[j] # "|"

\* line.split('|', 1)
split1(line) == <<SubSeq(line, 1, FirstBar(line) - 1),
                  SubSeq(line, FirstBar(line) + 1, Len(line))>>

\* one iteration of the parsing loop of main
ParseLine(line) ==
    IF HasBar(line)
    THEN [query |-> strip(split1(line)[1]), gid0 |-> strip(split1(line)[2])]
    ELSE [query |-> strip(line), gid0 |-> None]

RECURSIVE ParseLines(_)
ParseLines(lines) ==
    IF lines = <<>> THEN <<>>
    ELSE IF strip(Head(lines)) = <<>> THEN ParseLines(Tail(lines))
    ELSE <<ParseLine(Head(lines))>> \o ParseLines(Tail(lines))

\* the entries main builds from the text area
parse_entries(raw) == ParseLines(splitlines(raw))

-----------------------------------------------------------------------------
(* DataFrames and the CSV files *)

\* number of levels per version: range(6)
NumLevels == 6
Versions == <<"36", "41">>

\* the (version, level) pairs in the order load_all_data visits them
KeyOrder == [i \in 1..(Len(Versions) * NumLevels) |->
                <<Versions[((i - 1) \div NumLevels) + 1], (i - 1) % NumLevels>>]
Keys == {KeyOrder[i] : i \in 1..Len(KeyOrder)}

\* f"NAME_{level}" and f"GID_{level}"
name_col(level) == <<"NAME", level>>
gid_col(level) == <<"GID", level>>
GID0 == <<"GID", 0>>

\* pd.DataFrame()
EmptyDataFrame == [columns |-> {}, rows |-> <<>>]

DataFrame(cols, rows) == [columns |-> cols, rows |-> rows]

\* a record with GID_0, GID_{level} and NAME_{level}
Row3(level, g0, g, n) ==
    (GID0 :> g0) @@ (gid_col(level) :> g) @@ (name_col(level) :> n)

Restrict(row, cols) == [c \in cols |-> row[c]]

AllCols(level) == {GID0, gid_col(level), name_col(level)}

\* a GID of the area with country code g0 at a level
Gid(g0, level) ==
    IF level = 0 THEN g0
    ELSE g0 \o <<"1">>

\* pd.read_csv(filepath) of the files on disk, filepath as <<version, level>>
read_csv(filepath) ==
    LET l == filepath[2] IN
    IF filepath[1] = "36" THEN
        CASE l = 0 -> DataFrame(AllCols(0),
                        <<Row3(0, tX, tX, tA), Row3(0, tY, tY, tB)>>)
          [] l = 1 -> DataFrame(AllCols(1),
                        <<Row3(1, tX, Gid(tX, 1), tB), Row3(1, tY, Gid(tY, 1), tA)>>)
          [] l = 2 -> DataFrame({GID0, gid_col(2)},
                        <<Restrict(Row3(2, tX, Gid(tX, 2), tA), {GID0, gid_col(2)})>>)
          [] l = 3 -> DataFrame({GID0, name_col(3)},
                        <<Restrict(Row3(3, tX, Gid(tX, 3), tA), {GID0, name_col(3)})>>)
          [] l = 4 -> DataFrame({gid_col(4), name_col(4)},
                        <<Restrict(Row3(4, tX, Gid(tX, 4), tA),
                                   {gid_col(4), name_col(4)})>>)
          [] l = 5 -> DataFrame(AllCols(5),
                        <<Row3(5, NaN, Gid(tX, 5), tA)>>)
    ELSE
        CASE l = 0 -> DataFrame(AllCols(0),
                        <<Row3(0, tY, tY, tB), Row3(0, tX, tX, tA)>>)
          [] l = 1 -> DataFrame(AllCols(1),
                        <<Row3(1, tX, Gid(tX, 1), tA), Row3(1, tX, Gid(tY, 1), tA)>>)
          [] l = 2 -> DataFrame(AllCols(2), <<>>)
          [] l = 3 -> DataFrame(AllCols(3),
                        <<Row3(3, tY, Gid(tY, 3), tB)>>)
          [] l = 4 -> DataFrame(AllCols(4),
                        <<Row3(4, tX, Gid(tX, 4), tB)>>)
          [] l = 5 -> DataFrame(AllCols(5),
                        <<Row3(5, tY, Gid(tY, 5), tA), Row3(5, tX, Gid(tX, 5), tB)>>)

-----------------------------------------------------------------------------
(* load_all_data *)

\* data[key] = df on a dict kept as the sequence of its items
DictSet(data, key, df) ==
    IF \E i \in 1..Len(data) : data[i][1] = key
    THEN [i \in 1..Len(data) |-> IF data[i][1] = key THEN <<key, df>> ELSE data[i]]
    ELSE Append(data, <<key, df>>)

\* faulty variant: the assignment sits inside the try block
LoadStepInsideTry(data, key, failing) ==
    IF key \in failing THEN data ELSE DictSet(data, key, read_csv(key))

\* the body of the loop: try read_csv, except: empty DataFrame; then store
LoadStep(data, key, failing) ==
    DictSet(data, key, IF key \in failing THEN EmptyDataFrame ELSE read_csv(key))

RECURSIVE LoadFrom(_, _, _)
LoadFrom(i, data, failing) ==
    IF i > Len(KeyOrder) THEN data
    ELSE LoadFrom(i + 1, LoadStep(data, KeyOrder[i], failing), failing)

\* load_all_data(), where read_csv raises for the filepaths in failing
load_all_data(failing) == LoadFrom(1, <<>>, failing)

-----------------------------------------------------------------------------
(* find_matches *)

\* fuzz.token_set_ratio(query, db_name)
token_set_ratio(query, db_name) == scorer[<<query, db_name>>]

\* faulty variant: one of the two columns is enough
HasRequiredColumnsEither(df, level) ==
    name_col(level) \in df.columns \/ gid_col(level) \in df.columns

\* name_col in df.columns and gid_col in df.columns
HasRequiredColumns(df, level) ==
    name_col(level) \in df.columns /\ gid_col(level) \in df.columns

\* if gid0_filter: (None and the empty string are falsy)
FilterApplies(gid0_filter) == gid0_filter # None /\ gid0_filter # EmptyText

\* faulty variant: the filter is never applied
SkippedByFilterNever(row, gid0_filter) == FALSE

\* the continue of the GID_0 filter
SkippedByFilter(row, gid0_filter) ==
    /\ FilterApplies(gid0_filter)
    /\ (GID0 \notin DOMAIN row \/ Str(row[GID0]) # gid0_filter)

\* faulty variant: the comparison is turned round
QualifiesBelow(score, thr) == score <= thr

\* score >= threshold
Qualifies(score, thr) == score >= thr

\* row.get(col, default)
RowGet(row, col, default) == IF col \in DOMAIN row THEN row[col] ELSE default

\* faulty variant: GID_0 is always the default
MatchOfOmitGid0(query, row, level, version, score) ==
    [query |-> query, version |-> version, level |-> level,
     GID_0 |-> EmptyText, GID |-> row[gid_col(level)],
     matched_name |-> Str(row[name_col(level)]), score |-> score]

\* the dict appended to matches
MatchOf(query, row, level, version, score) ==
    [query |-> query, version |-> version, level |-> level,
     GID_0 |-> RowGet(row, GID0, EmptyText), GID |-> row[gid_col(level)],
     matched_name |-> Str(row[name_col(level)]), score |-> score]

\* faulty variant: matches.insert(0, m)
AppendMatchFront(matches, m) == <<m>> \o matches

\* matches.append(m)
AppendMatch(matches, m) == Append(matches, m)

\* the loop over df.iterrows() from row i on; a missing key raises KeyError
RECURSIVE ScanRows(_, _, _, _, _, _, _, _)
ScanRows(rows, i, matches, query, level, version, thr, gid0_filter) ==
    IF i > Len(rows) THEN matches
    ELSE LET row == rows[i] IN
        IF SkippedByFilter(row, gid0_filter)
        THEN ScanRows(rows, i + 1, matches, query, level, version, thr, gid0_filter)
        ELSE IF name_col(level) \notin DOMAIN row THEN KeyError
        ELSE LET score == token_set_ratio(query, Str(row[name_col(level)])) IN
            IF ~Qualifies(score, thr)
            THEN ScanRows(rows, i + 1, matches, query, level, version, thr, gid0_filter)
            ELSE IF gid_col(level) \notin DOMAIN row THEN KeyError
            ELSE ScanRows(rows, i + 1,
                          AppendMatch(matches, MatchOf(query, row, level, version, score)),
                          query, level, version, thr, gid0_filter)

find_matches(query, df, level, version, thr, gid0_filter) ==
    IF HasRequiredColumns(df, level)
    THEN ScanRows(df.rows, 1, <<>>, query, level, version, thr, gid0_filter)
    ELSE <<>>

-----------------------------------------------------------------------------
(* main: the matching loops and the sort *)

\* the find_matches call of table number t and entry number e
CallOf(data, t, es, e, thr) ==
    [table |-> t, entry |-> e,
     version |-> data[t][1][1], level |-> data[t][1][2],
     query |-> es[e].query, gid0 |-> es[e].gid0,
     out |-> find_matches(es[e].query, data[t][2], data[t][1][2],
                          data[t][1][1], thr, es[e].gid0)]

\* position n of the nested loops, entries innermost
TableMajor(data, es, n) ==
    <<((n - 1) \div Len(es)) + 1, ((n - 1) % Len(es)) + 1>>

\* faulty variant: the loops are nested the other way round
EntryMajor(data, es, n) ==
    <<((n - 1) % Len(data)) + 1, ((n - 1) \div Len(data)) + 1>>

\* for (ver, lvl), df in data_dict.items(): for entry in entries:
LoopOrder(data, es, n) == TableMajor(data, es, n)

\* the calls main makes, in order
run_calls(es, data, thr) ==
    [n \in 1..(Len(data) * Len(es)) |->
        CallOf(data, LoopOrder(data, es, n)[1], es, LoopOrder(data, es, n)[2], thr)]

\* results.extend(matches) over the calls from call n on
RECURSIVE ExtendFrom(_, _, _)
ExtendFrom(cs, n, acc) ==
    IF n > Len(cs) THEN acc
    ELSE IF cs[n].out = KeyError THEN KeyError
    ELSE ExtendFrom(cs, n + 1, acc \o cs[n].out)

run_results(cs) == ExtendFrom(cs, 1, <<>>)

\* faulty variant: ascending=[True, True]
BeforeAscendingScore(a, b) ==
    \/ StrLess(a.query, b.query)
    \/ a.query = b.query /\ a.score < b.score

\* a sorts strictly before b: query ascending, then score descending
Before(a, b) ==
    \/ StrLess(a.query, b.query)
    \/ a.query = b.query /\ a.score > b.score

\* faulty variant: an unstable sort that puts a row in front of its ties
InsertBeforeTies(sorted, item) ==
    LET n == Cardinality({i \in 1..Len(sorted) : Before(sorted[i].match, item.match)})
    IN SubSeq(sorted, 1, n) \o <<item>> \o SubSeq(sorted, n + 1, Len(sorted))

\* item goes behind every row that does not sort after it
InsertStable(sorted, item) ==
    LET n == Cardinality({i \in 1..Len(sorted) : ~Before(item.match, sorted[i].match)})
    IN SubSeq(sorted, 1, n) \o <<item>> \o SubSeq(sorted, n + 1, Len(sorted))

RECURSIVE SortFrom(_, _, _)
SortFrom(res, i, sorted) ==
    IF i > Len(res) THEN sorted
    ELSE SortFrom(res, i + 1, InsertStable(sorted, [index |-> i - 1, match |-> res[i]]))

\* pd.DataFrame(results).sort_values(["query", "score"], ascending=[True, False])
sort_values(res) == SortFrom(res, 1, <<>>)

\* if results: df_res = sorted frame; else: nothing is displayed
display(res) == IF res = <<>> THEN <<>> ELSE sort_values(res)

-----------------------------------------------------------------------------
(* Inputs *)

\* range of the threshold slider and its initial value
SliderMin == 0
SliderMax == 100
SliderDefault == 80

SliderValues == {SliderMin, SliderDefault, SliderMax}

\* thresholds handed to the functions directly, also outside the slider's range
ApiThresholds == {SliderMin - 1, SliderMin, 50, SliderMax, SliderMax + 1}

ScoreValues == {0, 50, 100}
QueryTexts == {tA, tB}
NameTexts == {tA, tB}

\* token_set_ratio is symmetric and gives 100 for equal non-empty texts
Scorers == {f \in [QueryTexts \X NameTexts -> ScoreValues] :
               /\ \A q \in QueryTexts : q \in NameTexts => f[<<q, q>>] = 100
               /\ \A q \in QueryTexts, n \in NameTexts :
                     (n \in QueryTexts /\ q \in NameTexts) => f[<<q, n>>] = f[<<n, q>>]}

\* lines a user types: "A", "B|X", "A|", " ", " B |Y"
InputLines == {
    <<"A">>,
    <<"B", "|", "X">>,
    <<"A", "|">>,
    <<" ">>,
    <<" ", "B", " ", "|", "Y">> }

RECURSIVE JoinLines(_)
JoinLines(lines) ==
    IF lines = <<>> THEN <<>>
    ELSE IF Len(lines) = 1 THEN lines[1]
    ELSE lines[1] \o <<"\n">> \o JoinLines(Tail(lines))

SeqsUpTo(S, n) == UNION {[1..k -> S] : k \in 0..n}

RawInputs == {JoinLines(ls) : ls \in SeqsUpTo(InputLines, MaxLines)}

\* sets of files that are missing or corrupt when the cache is filled
Outages == {{}, {<<"36", 1>>}, {<<"41", 0>>, <<"41", 5>>}}

ApiLevels == {0, 1}
ApiScopes == {None, EmptyText, tX, tNan}

CellValues(col, level) ==
    IF col = GID0 THEN {tX, tY, NaN}
    ELSE IF col = gid_col(level) THEN {Gid(tX, level)}
    ELSE {tA, tB}

RowsOver(cols, level) ==
    {r \in [cols -> UNION {CellValues(c, level) : c \in cols}] :
        \A c \in cols : r[c] \in CellValues(c, level)}

TablesOfLevel(level) ==
    UNION {{DataFrame(cols, rows) :
                rows \in IF cols = {} THEN {<<>>}
                         ELSE SeqsUpTo(RowsOver(cols, level), MaxRows)} :
            cols \in SUBSET AllCols(level)}

ApiTables == UNION {TablesOfLevel(level) : level \in ApiLevels}

ApiBatches == {parse_entries(raw) : raw \in RawInputs}

-----------------------------------------------------------------------------
(* The application: script runs of main *)

NoCall == [op |-> "none"]

Init ==
    /\ scorer \in Scorers
    /\ threshold = SliderDefault
    /\ raw_input = EmptyText
    /\ cache = NoCache
    /\ failed = {}
    /\ shown = "idle"
    /\ entries = <<>>
    /\ calls = <<>>
    /\ results = <<>>
    /\ df_res = <<>>
    /\ call = NoCall

\* a script run in which the button is not pressed renders the widgets only
RerunIdle ==
    /\ shown' = "idle"
    /\ entries' = <<>>
    /\ calls' = <<>>
    /\ results' = <<>>
    /\ df_res' = <<>>
    /\ UNCHANGED <<scorer, cache, failed, call>>

\* the user moves the slider
SetThreshold(t) ==
    /\ t # threshold
    /\ threshold' = t
    /\ UNCHANGED raw_input
    /\ RerunIdle

\* number of lines typed into the text area so far
LinesTyped(raw) ==
    IF raw = <<>> THEN 0
    ELSE 1 + Cardinality({i \in 1..Len(raw) : raw[i] = "\n"})

\* the user types one more line into the text area
AppendLine(line) ==
    /\ LinesTyped(raw_input) < MaxLines
    /\ raw_input' = IF raw_input = <<>> THEN line
                    ELSE raw_input \o <<"\n">> \o line
    /\ UNCHANGED threshold
    /\ RerunIdle

\* the user empties the text area
ClearText ==
    /\ raw_input # <<>>
    /\ raw_input' = <<>>
    /\ UNCHANGED threshold
    /\ RerunIdle

\* button pressed, nothing but whitespace entered: warning and return
ClickBlank ==
    /\ strip(raw_input) = <<>>
    /\ shown' = "warning"
    /\ entries' = <<>>
    /\ calls' = <<>>
    /\ results' = <<>>
    /\ df_res' = <<>>
    /\ UNCHANGED <<scorer, threshold, raw_input, cache, failed, call>>

\* the part of main behind load_all_data, on the loaded dict
Match(data) ==
    LET es == parse_entries(raw_input)
        cs == run_calls(es, data, threshold)
        res == run_results(cs)
    IN /\ entries' = es
       /\ calls' = cs
       /\ results' = res
       /\ df_res' = display(res)
       /\ shown' = IF res = <<>> THEN "info" ELSE "table"

\* button pressed, first load: load_all_data runs and is cached
ClickCold(failing) ==
    /\ strip(raw_input) # <<>>
    /\ ~cache.loaded
    /\ cache' = Cached(load_all_data(failing))
    /\ failed' = failing
    /\ Match(load_all_data(failing))
    /\ UNCHANGED <<scorer, threshold, raw_input, call>>

\* button pressed, load_all_data answered from the cache
ClickWarm ==
    /\ strip(raw_input) # <<>>
    /\ cache.loaded
    /\ Match(cache.data)
    /\ UNCHANGED <<scorer, threshold, raw_input, cache, failed, call>>

Next ==
    \/ \E t \in SliderValues : SetThreshold(t)
    \/ \E line \in InputLines : AppendLine(line)
    \/ ClearText
    \/ ClickBlank
    \/ \E failing \in Outages : ClickCold(failing)
    \/ ClickWarm

Spec == Init /\ [][Next]_vars

-----------------------------------------------------------------------------
(* The functions called directly on drawn arguments *)

ApiUnchanged == UNCHANGED <<scorer, threshold, raw_input, cache, failed, shown,
                            entries, calls, results, df_res>>

FindMatchesCall ==
    /\ call = NoCall
    /\ \E query \in QueryTexts, df \in ApiTables, level \in ApiLevels,
          version \in {"41"}, thr \in ApiThresholds,
          gid0_filter \in ApiScopes :
            call' = [op |-> "find_matches", query |-> query, df |-> df,
                     level |-> level, version |-> version, threshold |-> thr,
                     gid0_filter |-> gid0_filter,
                     out |-> find_matches(query, df, level, version, thr, gid0_filter)]
    /\ ApiUnchanged

LoadCall ==
    /\ call = NoCall
    /\ \E failing \in SUBSET Keys :
            call' = [op |-> "load_all_data", failing |-> failing,
                     data |-> load_all_data(failing)]
    /\ ApiUnchanged

\* the matching loops and the sort of main on a drawn batch and threshold
RunCall ==
    /\ call = NoCall
    /\ \E es \in ApiBatches, failing \in Outages, thr \in ApiThresholds :
        LET data == load_all_data(failing)
            cs == run_calls(es, data, thr)
            res == run_results(cs)
        IN call' = [op |-> "run", entries |-> es, failing |-> failing,
                    data |-> data, threshold |-> thr, calls |-> cs,
                    results |-> res, df_res |-> display(res)]
    /\ ApiUnchanged

\* one call per behaviour
NextApi == FindMatchesCall \/ LoadCall \/ RunCall

SpecApi == Init /\ [][NextApi]_vars

-----------------------------------------------------------------------------
(* What the claims expect of a table scan, stated from their own words *)

Usable(df, level) ==
    <<"NAME", level>> \in df.columns /\ <<"GID", level>> \in df.columns

\* a record passes a scope when no scope is in force or its GID_0 reads as the scope
ScopeInForce(gid0) == gid0 # None /\ gid0 # <<>>

ScopePasses(gid0, row) ==
    \/ ~ScopeInForce(gid0)
    \/ <<"GID", 0>> \in DOMAIN row /\ Str(row[<<"GID", 0>>]) = gid0

RowScore(query, row, level) == scorer[<<query, Str(row[<<"NAME", level>>])>>]

\* the rows of df that are to produce a Match
Producing(query, df, level, thr, gid0) ==
    IF Usable(df, level)
    THEN {r \in 1..Len(df.rows) :
            ScopePasses(gid0, df.rows[r]) /\ RowScore(query, df.rows[r], level) >= thr}
    ELSE {}

ExpectedMatch(query, row, level, version) ==
    [query |-> query, version |-> version, level |-> level,
     GID_0 |-> IF <<"GID", 0>> \in DOMAIN row THEN row[<<"GID", 0>>] ELSE <<>>,
     GID |-> row[<<"GID", level>>],
     matched_name |-> Str(row[<<"NAME", level>>]),
     score |-> RowScore(query, row, level)]

\* the k-th smallest element of a set of numbers
Kth(Q, k) == CHOOSE r \in Q : Cardinality({x \in Q : x < r}) = k - 1

Count(seq, m) == Cardinality({i \in 1..Len(seq) : seq[i] = m})

\* out lists the Matches of the producing rows of df, in row order
InRecordOrder(out, query, df, level, version, thr, gid0) ==
    LET Q == Producing(query, df, level, thr, gid0) IN
    /\ out # KeyError
    /\ Len(out) = Cardinality(Q)
    /\ \A k \in 1..Len(out) :
          out[k] = ExpectedMatch(query, df.rows[Kth(Q, k)], level, version)

\* number of accumulated Matches before call n
RECURSIVE Offset(_, _)
Offset(cs, n) == IF n <= 1 THEN 0 ELSE Offset(cs, n - 1) + Len(cs[n - 1].out)

\* for every position of the accumulator, the call that produced it and the
\* position in that call's output
RECURSIVE OriginsFrom(_, _)
OriginsFrom(cs, n) ==
    IF n > Len(cs) THEN <<>>
    ELSE [k \in 1..Len(cs[n].out) |-> <<n, k>>] \o OriginsFrom(cs, n + 1)

Origins(cs) == OriginsFrom(cs, 1)

\* rank of a table in the iteration order: version "36" before "41", then level
TableRank(version, level) == IF version = "36" THEN level ELSE NumLevels + level

IsFind == call.op = "find_matches"
IsRun == call.op = "run"
IsLoad == call.op = "load_all_data"

-----------------------------------------------------------------------------
(* Claims checked under SpecApi *)

\* C1: every Match a find_matches call returns, and every Match in the result
\* of a run, has a score at least the threshold that was passed in.
C1_ScoreAtLeastThreshold ==
    /\ IsFind => \A k \in 1..Len(call.out) : call.out[k].score >= call.threshold
    /\ IsRun =>
        /\ \A p \in 1..Len(call.df_res) :
              call.df_res[p].match.score >= call.threshold
        /\ \A n \in 1..Len(call.calls) : \A k \in 1..Len(call.calls[n].out) :
              call.calls[n].out[k].score >= call.threshold

\* a run that keeps a record scoring exactly the threshold and drops one
\* scoring 50, below it
C1_Witness ==
    /\ IsRun
    /\ \E p \in 1..Len(call.df_res) : call.df_res[p].match.score = call.threshold
    /\ \E n \in 1..Len(call.calls) :
          LET c == call.calls[n]
              df == call.data[c.table][2] IN
          /\ Usable(df, c.level)
          /\ \E r \in 1..Len(df.rows) :
                /\ ScopePasses(c.gid0, df.rows[r])
                /\ RowScore(c.query, df.rows[r], c.level) = 50
                /\ call.threshold > 50

\* C3 as stated: whenever the scope is any string, every Match comes from a
\* record that has GID_0 and whose GID_0 reads as the scope; an absent scope
\* excludes nothing.
C3_ScopeAnyString ==
    IsFind =>
        /\ call.gid0_filter # None =>
              \A k \in 1..Len(call.out) :
                  /\ <<"GID", 0>> \in call.df.columns
                  /\ Str(call.out[k].GID_0) = call.gid0_filter
        /\ call.gid0_filter = None =>
              Len(call.out) = Cardinality({r \in 1..Len(call.df.rows) :
                  /\ Usable(call.df, call.level)
                  /\ RowScore(call.query, call.df.rows[r], call.level)
                        >= call.threshold})

\* C3 amended: whenever the scope is a non-empty string, every Match comes from
\* a record that has GID_0 and whose GID_0 reads as the scope, and the records
\* whose GID_0 is absent or reads otherwise produce none; when the scope is
\* absent or the empty string, GID_0 excludes no record.
C3_ScopeNonEmptyString ==
    IsFind =>
        /\ ScopeInForce(call.gid0_filter) =>
              /\ \A k \in 1..Len(call.out) :
                    /\ <<"GID", 0>> \in call.df.columns
                    /\ Str(call.out[k].GID_0) = call.gid0_filter
              /\ Len(call.out) = Cardinality({r \in 1..Len(call.df.rows) :
                    /\ Usable(call.df, call.level)
                    /\ <<"GID", 0>> \in call.df.columns
                    /\ Str(call.df.rows[r][<<"GID", 0>>]) = call.gid0_filter
                    /\ RowScore(call.query, call.df.rows[r], call.level)
                          >= call.threshold})
        /\ ~ScopeInForce(call.gid0_filter) =>
              Len(call.out) = Cardinality({r \in 1..Len(call.df.rows) :
                  /\ Usable(call.df, call.level)
                  /\ RowScore(call.query, call.df.rows[r], call.level)
                        >= call.threshold})

\* scope "X" on a table where one record of GID_0 "X" matches and another
\* record, of a different GID_0, scores high enough and is left out
C3_Witness ==
    /\ IsFind
    /\ call.gid0_filter = tX
    /\ Usable(call.df, call.level)
    /\ Len(call.out) = 1
    /\ \E r \in 1..Len(call.df.rows) :
          /\ <<"GID", 0>> \in call.df.columns
          /\ Str(call.df.rows[r][<<"GID", 0>>]) # tX
          /\ RowScore(call.query, call.df.rows[r], call.level) >= call.threshold

\* C5: for thresholds t1 <= t2 the Matches find_matches returns for t2 are
\* among those it returns for t1, all other arguments equal.
C5_ThresholdMonotone ==
    IsFind =>
        \A t \in ApiThresholds :
            LET other == find_matches(call.query, call.df, call.level,
                                      call.version, t, call.gid0_filter) IN
            /\ t >= call.threshold =>
                  \A k \in 1..Len(other) :
                      Count(other, other[k]) <= Count(call.out, other[k])
            /\ t <= call.threshold =>
                  \A k \in 1..Len(call.out) :
                      Count(call.out, call.out[k]) <= Count(other, call.out[k])

\* a call that returns two Matches of which a higher threshold keeps only one
C5_Witness ==
    /\ IsFind
    /\ Len(call.out) = 2
    /\ \E t \in ApiThresholds :
          /\ t > call.threshold
          /\ Len(find_matches(call.query, call.df, call.level, call.version, t,
                              call.gid0_filter)) = 1

\* C6: a table without NAME_{level} or without GID_{level} makes find_matches
\* return the empty list without raising; in a run such a table contributes no
\* Match and the calls on the other tables contribute all of theirs.
C6_ColumnAbsence ==
    /\ IsFind => (~Usable(call.df, call.level) => call.out = <<>>)
    /\ IsRun =>
        /\ call.results # KeyError
        /\ \A n \in 1..Len(call.calls) :
              LET c == call.calls[n]
                  df == call.data[c.table][2] IN
              /\ ~Usable(df, c.level) =>
                    /\ c.out = <<>>
                    /\ \A i \in 1..Len(call.results) :
                          <<call.results[i].version, call.results[i].level>>
                              # <<c.version, c.level>>
              /\ Usable(df, c.level) =>
                    /\ InRecordOrder(c.out, c.query, df, c.level, c.version,
                                     call.threshold, c.gid0)
                    /\ SubSeq(call.results, Offset(call.calls, n) + 1,
                              Offset(call.calls, n) + Len(c.out)) = c.out

\* a run over tables of which one has rows and a NAME column but no GID column,
\* and another one contributes Matches
C6_Witness ==
    /\ IsRun
    /\ call.results # <<>>
    /\ call.threshold <= 0
    /\ \E n \in 1..Len(call.calls) :
          LET c == call.calls[n]
              df == call.data[c.table][2] IN
          /\ <<"NAME", c.level>> \in df.columns
          /\ <<"GID", c.level>> \notin df.columns
          /\ df.rows # <<>>
          /\ c.gid0 = None

\* number of (table, entry, record) triples of a run whose table is usable and
\* whose record passes the entry's scope
ScopePassingTriples(es, data) ==
    Cardinality(UNION {
        {<<te[1], te[2], r>> : r \in {x \in 1..Len(data[te[1]][2].rows) :
            /\ Usable(data[te[1]][2], data[te[1]][1][2])
            /\ ScopePasses(es[te[2]].gid0, data[te[1]][2].rows[x])}} :
        te \in (1..Len(data)) \X (1..Len(es))})

C9_LoadFailureIsEmptyTable ==
    (IsLoad \/ IsRun) =>
        /\ Len(call.data) = 12
        /\ {call.data[i][1] : i \in 1..Len(call.data)}
              = {"36", "41"} \X (0..5)
        /\ \A i \in 1..Len(call.data) :
              /\ call.data[i][1] \in call.failing
                    => (call.data[i][2].columns = {} /\ call.data[i][2].rows = <<>>)
              /\ call.data[i][1] \notin call.failing
                    => call.data[i][2] = read_csv(call.data[i][1])
        /\ IsRun =>
              /\ call.results # KeyError
              /\ \A i \in 1..Len(call.results) :
                    <<call.results[i].version, call.results[i].level>>
                        \notin call.failing
              /\ Len(call.calls) = 12 * Len(call.entries)
              /\ \A n \in 1..Len(call.calls) :
                    LET c == call.calls[n] IN
                    <<c.version, c.level>> \notin call.failing =>
                        /\ InRecordOrder(c.out, c.query,
                                         read_csv(<<c.version, c.level>>),
                                         c.level, c.version, call.threshold, c.gid0)
                        /\ SubSeq(call.results, Offset(call.calls, n) + 1,
                                  Offset(call.calls, n) + Len(c.out)) = c.out

\* a run with Matches whose data has a failed file that would have matched
C9_Witness ==
    /\ IsRun
    /\ call.results # <<>>
    /\ \E k \in call.failing, e \in 1..Len(call.entries) :
          Producing(call.entries[e].query, read_csv(k), k[2], call.threshold,
                    call.entries[e].gid0) # {}

\* C10: the Matches of one find_matches call stand in the order of their
\* records in the table, whatever their scores.
C10_RecordOrder ==
    IsFind =>
        InRecordOrder(call.out, call.query, call.df, call.level, call.version,
                      call.threshold, call.gid0_filter)

\* a call returning two different Matches, the later one with the higher score
C10_Witness ==
    /\ IsFind
    /\ Len(call.out) = 2
    /\ call.out[1].score < call.out[2].score

-----------------------------------------------------------------------------
(* Claims checked under Spec *)

Ran == shown \in {"info", "table"}

\* the (table, entry, record) triples of the last run that are to give a Match
ProducingTriples ==
    UNION {
        {<<te[1], te[2], r>> :
            r \in Producing(entries[te[2]].query, cache.data[te[1]][2],
                            cache.data[te[1]][1][2], threshold,
                            entries[te[2]].gid0)} :
        te \in (1..Len(cache.data)) \X (1..Len(entries))}

MatchOfTriple(tr) ==
    ExpectedMatch(entries[tr[2]].query, cache.data[tr[1]][2].rows[tr[3]],
                  cache.data[tr[1]][1][2], cache.data[tr[1]][1][1])

\* df_res holds the rows of results, each once, under their old index
IsRearrangement ==
    /\ Len(df_res) = Len(results)
    /\ {df_res[p].index : p \in 1..Len(df_res)} = 0..(Len(results) - 1)
    /\ \A p \in 1..Len(df_res) : df_res[p].match = results[df_res[p].index + 1]

\* C2: the displayed MatchSet is grouped by query text in ascending order, the
\* Matches of one query text are contiguous, and within a query the scores
\* do not increase.
C2_SortedByQueryThenScore ==
    \A p, q \in 1..Len(df_res) :
        p < q =>
            /\ ~StrLess(df_res[q].match.query, df_res[p].match.query)
            /\ df_res[p].match.query = df_res[q].match.query =>
                  /\ df_res[p].match.score >= df_res[q].match.score
                  /\ \A r \in p..q : df_res[r].match.query = df_res[p].match.query

\* a displayed table with two query texts and two scores for one of them,
\* built from an accumulator that was in neither order
C2_Witness ==
    /\ shown = "table"
    /\ \E p, q \in 1..Len(df_res) :
          df_res[p].match.query # df_res[q].match.query
    /\ \E p, q \in 1..Len(df_res) :
          /\ df_res[p].match.query = df_res[q].match.query
          /\ df_res[p].match.score # df_res[q].match.score
    /\ \E i, j \in 1..Len(results) :
          i < j /\ StrLess(results[j].query, results[i].query)
    /\ \E i, j \in 1..Len(results) :
          /\ i < j
          /\ results[i].query = results[j].query
          /\ results[i].score < results[j].score

\* C4: the result of a run holds exactly one Match for every (table, query of
\* the batch, record) whose table has the required columns, whose record passes
\* the query's scope and scores at least the threshold, carrying the query
\* text, version, level, GID_0 (empty text without the column), GID, name and
\* score, and holds no other Match; the displayed table holds the same Matches.
C4_CompleteAndExact ==
    Ran =>
        /\ results # KeyError
        /\ Len(results) = Cardinality(ProducingTriples)
        /\ \A m \in {results[i] : i \in 1..Len(results)}
                      \cup {MatchOfTriple(tr) : tr \in ProducingTriples} :
              Count(results, m)
                  = Cardinality({tr \in ProducingTriples : MatchOfTriple(tr) = m})
        /\ IsRearrangement

\* a run whose batch holds the same query twice, so that a Match occurs twice,
\* on data where a record of a usable table gives no Match and a table
\* without GID_0 gives one
C4_Witness ==
    /\ shown = "table"
    /\ \E e1, e2 \in 1..Len(entries) : e1 # e2 /\ entries[e1] = entries[e2]
    /\ \E i \in 1..Len(results) :
          Count(results, results[i]) = 2 /\ results[i].GID_0 = <<>>
    /\ Len(results) < ScopePassingTriples(entries, cache.data)

\* C8: two displayed Matches of equal query text and equal score stand in the
\* order in which they were accumulated, which is by table in the order
\* version "36" before "41" and level ascending, then by position of the query
\* in the batch, then by record order in the table.
C8_StableSort ==
    Ran =>
        LET origin == Origins(calls) IN
        /\ IsRearrangement
        /\ Len(origin) = Len(results)
        /\ \A n \in 1..Len(calls) :
              /\ calls[n].query = entries[calls[n].entry].query
              /\ calls[n].gid0 = entries[calls[n].entry].gid0
              /\ InRecordOrder(calls[n].out, calls[n].query,
                               cache.data[calls[n].table][2], calls[n].level,
                               calls[n].version, threshold, calls[n].gid0)
        /\ \A i \in 1..Len(results) :
              /\ results[i] = calls[origin[i][1]].out[origin[i][2]]
              /\ cache.data[calls[origin[i][1]].table][1]
                    = <<results[i].version, results[i].level>>
        /\ \A p, q \in 1..Len(df_res) :
              (/\ p < q
               /\ df_res[p].match.query = df_res[q].match.query
               /\ df_res[p].match.score = df_res[q].match.score) =>
                  LET i == df_res[p].index + 1
                      j == df_res[q].index + 1
                      a == calls[origin[i][1]]
                      b == calls[origin[j][1]]
                  IN /\ i < j
                     /\ \/ TableRank(a.version, a.level) < TableRank(b.version, b.level)
                        \/ /\ TableRank(a.version, a.level)
                                 = TableRank(b.version, b.level)
                           /\ a.entry < b.entry
                        \/ /\ origin[i][1] = origin[j][1]
                           /\ origin[i][2] < origin[j][2]

\* a displayed table with ties between two tables, between two entries of the
\* batch on one table, and between two records of one call, and in which the
\* sort moved a row
C8_Witness ==
    /\ shown = "table"
    /\ \E p \in 1..Len(df_res) : df_res[p].index # p - 1
    /\ \E p, q \in 1..Len(df_res) :
          /\ p < q
          /\ df_res[p].match.query = df_res[q].match.query
          /\ df_res[p].match.score = df_res[q].match.score
          /\ df_res[p].match.version # df_res[q].match.version
    /\ \E p, q \in 1..Len(df_res) :
          LET a == Origins(calls)[df_res[p].index + 1][1]
              b == Origins(calls)[df_res[q].index + 1][1] IN
          /\ p < q
          /\ df_res[p].match.query = df_res[q].match.query
          /\ df_res[p].match.score = df_res[q].match.score
          /\ calls[a].table = calls[b].table
          /\ calls[a].entry < calls[b].entry
    /\ \E p, q \in 1..Len(df_res) :
          /\ p < q
          /\ df_res[p].match.query = df_res[q].match.query
          /\ df_res[p].match.score = df_res[q].match.score
          /\ Origins(calls)[df_res[p].index + 1][1]
                = Origins(calls)[df_res[q].index + 1][1]

====
